---- MODULE Spec2Model ----
(***************************************************************************)
(* Model of the semantic checking pass of exprcheck.py                     *)
(* (CheckProgramVisitor / check_program).  The tree is kept as a value     *)
(* that the pass annotates in place: every node has a check_type field     *)
(* that is Absent (the Python attribute does not exist), NoneT (the        *)
(* attribute exists and is None) or the name of a built-in type.           *)
(***************************************************************************)
EXTENDS Integers, Sequences, FiniteSets, TLC

VARIABLES parsed, prog, symtab, errors, pc, status, pass, prevProg, prevErrors, prevStatus

vars == <<parsed, prog, symtab, errors, pc, status, pass, prevProg, prevErrors, prevStatus>>

\* ---------------------------------------------------------------- bounds
MaxStmts == 3
MaxDepth == 2
MaxPasses == 2

\* ------------------------------------------------------- attribute values
Absent == "absent"
NoneT == "None"
TypeNames == {"int", "float", "string", "bool"}

IsType(ct) == ct \in TypeNames

\* hasattr(node, "check_type")
hasattr(node) == node.check_type /= Absent

\* ---------------------------------------------------------- type registry
unary_ops(t) ==
    CASE t = "int" -> {"+", "-"}
      [] t = "float" -> {"+", "-"}
      [] t = "string" -> {}
      [] t = "bool" -> {}

binary_ops(t) ==
    CASE t = "int" -> {"+", "-", "*", "/"}
      [] t = "float" -> {"+", "-", "*", "/"}
      [] t = "string" -> {"+"}
      [] t = "bool" -> {}

rel_ops(t) ==
    CASE t = "int" -> {"<", ">", "<=", ">=", "==", "!="}
      [] t = "float" -> {"<", ">", "<=", ">=", "==", "!="}
      [] t = "string" -> {"<", ">", "<=", ">=", "==", "!="}
      [] t = "bool" -> {"==", "!=", "&&", "||"}

\* the default value of a type, as a Python value <<type(value), repr>>
default(t) ==
    CASE t = "int" -> <<"int", "0">>
      [] t = "float" -> <<"float", "0.0">>
      [] t = "string" -> <<"str", "">>
      [] t = "bool" -> <<"bool", "False">>

\* self.typemap: Python type of a literal value -> type
typemap(pytype) ==
    CASE pytype = "int" -> "int"
      [] pytype = "float" -> "float"
      [] pytype = "str" -> "string"
      [] pytype = "bool" -> "bool"
      [] OTHER -> NoneT

\* ------------------------------------------------------------- the tree
\* expression nodes, one record shape for every kind
Literal(v) ==
    [kind |-> "Literal", op |-> "", name |-> "", value |-> v, kids |-> <<>>,
     check_type |-> Absent]
LoadLocation(n) ==
    [kind |-> "LoadLocation", op |-> "", name |-> n, value |-> <<>>, kids |-> <<>>,
     check_type |-> Absent]
Unaryop(o, e) ==
    [kind |-> "Unaryop", op |-> o, name |-> "", value |-> <<>>, kids |-> <<e>>,
     check_type |-> Absent]
Binop(o, l, r) ==
    [kind |-> "Binop", op |-> o, name |-> "", value |-> <<>>, kids |-> <<l, r>>,
     check_type |-> Absent]
Relop(o, l, r) ==
    [kind |-> "Relop", op |-> o, name |-> "", value |-> <<>>, kids |-> <<l, r>>,
     check_type |-> Absent]

Typename(n) == [name |-> n, check_type |-> Absent]
Location(n) == [name |-> n, check_type |-> Absent]

\* statements, one record shape for every kind; a missing child is <<>>
\* (expr is <<>> for a VarDeclaration parsed without an initializer)
VarDeclaration(n, tn, e) ==
    [kind |-> "VarDeclaration", name |-> n, typename |-> <<Typename(tn)>>,
     location |-> <<>>, expr |-> e, check_type |-> Absent]
ConstDeclaration(n, e) ==
    [kind |-> "ConstDeclaration", name |-> n, typename |-> <<>>,
     location |-> <<>>, expr |-> <<e>>, check_type |-> Absent]
AssignmentStatement(n, e) ==
    [kind |-> "AssignmentStatement", name |-> n, typename |-> <<>>,
     location |-> <<Location(n)>>, expr |-> <<e>>, check_type |-> Absent]

\* ---------------------------------------------------------- diagnostics
\* error(lineno, message): the line, the message and its format arguments;
\* at is the place of the reporting node in the statement: <<0>> for the
\* statement itself, <<0, 0>> for its Typename, and the path from the root
\* of its expression (<<>>) for an expression node
Diag(line, at, msg, args) == [line |-> line, at |-> at, msg |-> msg, args |-> args]

\* the outcome of visiting an expression: the node as annotated so far, the
\* diagnostics reported, and the exception raised ("" when it returned)
Result(node, errs, exc) == [node |-> node, errs |-> errs, exc |-> exc]

\* ---------------------------------------------------------- symbol table
Idents == {"a", "b", "u", "int", "float", "string", "bool", "foo"}

\* an entry is absent, a type, a declaration (statement idx) or the source
\* expression of an assignment (the expr of statement idx)
NoEntry == [cls |-> "absent", tname |-> "", idx |-> 0]
TypeEntry(t) == [cls |-> "type", tname |-> t, idx |-> 0]
NodeEntry(c, i) == [cls |-> c, tname |-> "", idx |-> i]

EmptySymtab == [n \in Idents |-> NoEntry]

\* SymbolTable.add
add(tab, name, value) == [tab EXCEPT ![name] = value]

\* SymbolTable.lookup
lookup(tab, name) == tab[name]

\* CheckProgramVisitor.__init__: the table seeded with the built-in types
CheckProgramVisitor_init ==
    [n \in Idents |-> IF n \in TypeNames THEN TypeEntry(n) ELSE NoEntry]

\* sym.check_type of the node an entry refers to, read from the tree p
SymCheckType(s, p) ==
    CASE s.cls \in {"var", "const"} -> p[s.idx].check_type
      [] s.cls = "expr" -> p[s.idx].expr[1].check_type
      [] OTHER -> Absent

\* what an expression visit can see of the table: names resolved to the
\* class of the entry and the check_type currently attached to its node
Env(tab, p) ==
    [n \in Idents |->
        [cls |-> tab[n].cls, tname |-> tab[n].tname,
         check_type |-> SymCheckType(tab[n], p)]]

\* --------------------------------------------------- operator type checks
\* the value returned, the diagnostics reported, the exception raised
Checked(ret, errs, exc) == [ret |-> ret, errs |-> errs, exc |-> exc]

check_type_unary(line, at, op, val) ==
    IF hasattr(val)
    THEN IF val.check_type = NoneT
         THEN Checked(NoneT, <<>>, "AttributeError")
         ELSE Checked(val.check_type,
                      IF op \notin unary_ops(val.check_type)
                      THEN <<Diag(line, at, "Unary operator {} not supported", <<op>>)>>
                      ELSE <<>>,
                      "")
    ELSE Checked(NoneT, <<>>, "")

\* errside after lines 137-141: the last failing side wins
errside_binary(op, lt, rt) ==
    IF op \notin binary_ops(rt) THEN "RHS"
    ELSE IF op \notin binary_ops(lt) THEN "LHS" ELSE NoneT

\* check_type_binary without the return of line 136
check_type_binary_noreturn(line, at, op, left, right) ==
    IF hasattr(left) /\ hasattr(right)
    THEN LET lt == left.check_type
             rt == right.check_type
             m == IF lt /= rt
                  THEN <<Diag(line, at,
                     "Binary operator {} does not have matching LHS/RHS types", <<op>>)>>
                  ELSE <<>>
         IN IF lt = NoneT \/ rt = NoneT
            THEN Checked(NoneT, m, "AttributeError")
            ELSE Checked(lt,
                    m \o (IF errside_binary(op, lt, rt) /= NoneT
                          THEN <<Diag(line, at,
                                "Binary operator {} not supported on {} of expression",
                                <<op, errside_binary(op, lt, rt)>>)>>
                          ELSE <<>>),
                    "")
    ELSE Checked(NoneT, <<>>, "")

check_type_binary(line, at, op, left, right) ==
    IF hasattr(left) /\ hasattr(right)
    THEN LET lt == left.check_type
             rt == right.check_type
         IN IF lt /= rt
            THEN Checked(lt,
                    <<Diag(line, at,
                     "Binary operator {} does not have matching LHS/RHS types", <<op>>)>>,
                    "")
            ELSE IF lt = NoneT
            THEN Checked(NoneT, <<>>, "AttributeError")
            ELSE Checked(lt,
                    IF errside_binary(op, lt, rt) /= NoneT
                    THEN <<Diag(line, at,
                          "Binary operator {} not supported on {} of expression",
                          <<op, errside_binary(op, lt, rt)>>)>>
                    ELSE <<>>,
                    "")
    ELSE Checked(NoneT, <<>>, "")

errside_rel(op, lt, rt) ==
    IF op \notin rel_ops(rt) THEN "RHS"
    ELSE IF op \notin rel_ops(lt) THEN "LHS" ELSE NoneT

check_type_rel(line, at, op, left, right) ==
    IF hasattr(left) /\ hasattr(right)
    THEN LET lt == left.check_type
             rt == right.check_type
         IN IF lt /= rt
            THEN Checked(lt,
                    <<Diag(line, at,
                     "Relational operator {} does not have matching LHS/RHS types", <<op>>)>>,
                    "")
            ELSE IF lt = NoneT
            THEN Checked(NoneT, <<>>, "AttributeError")
            ELSE Checked("bool",
                    IF errside_rel(op, lt, rt) /= NoneT
                    THEN <<Diag(line, at,
                          "Relational operator {} not supported on {} of expression",
                          <<op, errside_rel(op, lt, rt)>>)>>
                    ELSE <<>>,
                    "")
    ELSE Checked(NoneT, <<>>, "")

\* ------------------------------------------------------ expression visits
visit_Literal(node, line, at) ==
    LET check_type == typemap(node.value[1])
    IN Result([node EXCEPT !.check_type = check_type],
              IF check_type = NoneT
              THEN <<Diag(line, at, "Using unrecognized type {}", <<node.value[1]>>)>>
              ELSE <<>>,
              "")

visit_LoadLocation(node, env, line, at) ==
    LET sym == env[node.name]
    IN IF sym.cls = "absent"
       THEN Result(node, <<Diag(line, at, "name '{}' not found", <<node.name>>)>>, "")
       ELSE IF sym.cls = "type"
       THEN Result(node,
              <<Diag(line, at, "cannot use {} outside of variable declarations",
                     <<sym.tname>>)>>, "")
       ELSE IF sym.check_type = Absent
       THEN Result(node, <<>>, "AttributeError")
       ELSE IF sym.check_type = NoneT
       THEN Result(node, <<>>, "NameError")
       ELSE Result([node EXCEPT !.check_type = sym.check_type], <<>>, "")

\* lines 174-176: r is the outcome of self.visit(node.expr), c that of
\* check_type_unary; the node is annotated unless one of them raised
unary_outcome(node, r, c) ==
    IF r.exc /= ""
    THEN Result([node EXCEPT !.kids = <<r.node>>], r.errs, r.exc)
    ELSE IF c.exc /= ""
    THEN Result([node EXCEPT !.kids = <<r.node>>], r.errs \o c.errs, c.exc)
    ELSE Result([node EXCEPT !.kids = <<r.node>>, !.check_type = c.ret],
                r.errs \o c.errs, "")

visit_Unaryop(node, r, line, at) ==
    unary_outcome(node, r, check_type_unary(line, at, node.op, r.node))

\* lines 183-187 and 193-197: l and r are the outcomes of the visits of the
\* operands, c that of the type check; the right operand is left as it was
\* when the visit of the left one raised
binary_outcome(node, l, r, c) ==
    IF l.exc /= ""
    THEN Result([node EXCEPT !.kids = <<l.node, node.kids[2]>>], l.errs, l.exc)
    ELSE IF r.exc /= ""
    THEN Result([node EXCEPT !.kids = <<l.node, r.node>>], l.errs \o r.errs, r.exc)
    ELSE IF c.exc /= ""
    THEN Result([node EXCEPT !.kids = <<l.node, r.node>>],
                l.errs \o r.errs \o c.errs, c.exc)
    ELSE Result([node EXCEPT !.kids = <<l.node, r.node>>, !.check_type = c.ret],
                l.errs \o r.errs \o c.errs, "")

visit_Binop(node, l, r, line, at) ==
    binary_outcome(node, l, r, check_type_binary(line, at, node.op, l.node, r.node))

visit_Relop(node, l, r, line, at) ==
    binary_outcome(node, l, r, check_type_rel(line, at, node.op, l.node, r.node))

\* the rule of the node's class applied to the outcomes sub of its children
dispatch(node, sub, env, line, at) ==
    CASE node.kind = "Literal" -> visit_Literal(node, line, at)
      [] node.kind = "LoadLocation" -> visit_LoadLocation(node, env, line, at)
      [] node.kind = "Unaryop" -> visit_Unaryop(node, sub[1], line, at)
      [] node.kind = "Binop" -> visit_Binop(node, sub[1], sub[2], line, at)
      [] node.kind = "Relop" -> visit_Relop(node, sub[1], sub[2], line, at)

\* NodeVisitor.visit: dispatch on the node's class; the rules for operators
\* start with the visits of the children
RECURSIVE visit(_, _, _, _)
visit(node, env, line, at) ==
    dispatch(node,
             [k \in 1..Len(node.kids) |->
                 visit(node.kids[k], env, line, Append(at, k))],
             env, line, at)

\* ------------------------------------------------------- statement visits
\* the outcome of visiting a statement: the tree, the table, the diagnostics
\* added, and the exception raised ("" when the visit returned)
Outcome(p, tab, errs, exc) == [prog |-> p, symtab |-> tab, errs |-> errs, exc |-> exc]

\* self.symtab.lookup(node.name) is not None
is_bound(tab, name) == lookup(tab, name).cls /= "absent"

\* visit_Typename: the Typename node after the visit and its diagnostics
visit_Typename(tn, tab, line) ==
    LET sym == lookup(tab, tn.name)
    IN IF sym.cls /= "type"
       THEN Result(tn, <<Diag(line, <<0, 0>>, "{} is not a valid type", <<tn.name>>)>>, "")
       ELSE Result([tn EXCEPT !.check_type = sym.tname], <<>>, "")

\* the initializer synthesized with the default of int whatever the type
synthesized_int(check_type) ==
    [Literal(<<"int", "0">>) EXCEPT !.check_type = check_type]

\* the initializer synthesized without line 250 (no type attached)
synthesized_untyped(check_type) == Literal(default(check_type))

\* lines 248-250: the Literal synthesized for a missing initializer
synthesized_initializer(check_type) ==
    [Literal(default(check_type)) EXCEPT !.check_type = check_type]

redefine_var(node, i) ==
    <<Diag(i, <<0>>, "Attempted to redefine var '{}', not allowed", <<node.name>>)>>

\* lines 241-244: the declaration after the visit t of its Typename
typed_declaration(node, t) ==
    [node EXCEPT !.typename = <<t.node>>,
                 !.check_type = IF t.node.check_type /= Absent
                                THEN t.node.check_type ELSE @]

\* line 246 for an initializer that is present: r is the outcome of its visit
initializer_outcome(p, tab, i, errs, r) ==
    Outcome([p EXCEPT ![i].expr = <<r.node>>], tab, errs \o r.errs, r.exc)

\* lines 246-250
declare_initializer(p, tab, i, errs) ==
    IF p[i].expr /= <<>>
    THEN initializer_outcome(p, tab, i, errs,
                             visit(p[i].expr[1], Env(tab, p), i, <<>>))
    ELSE IF ~IsType(p[i].check_type)
    THEN Outcome(p, tab, errs, "AttributeError")
    ELSE Outcome([p EXCEPT ![i].expr = <<synthesized_initializer(p[i].check_type)>>],
                 tab, errs, "")

\* lines 241-250 with the name bound in tab
declare_typename(p, tab, i, t) ==
    declare_initializer([p EXCEPT ![i] = typed_declaration(p[i], t)], tab, i, t.errs)

\* lines 239-250
declare_bound(p, tab, i) ==
    declare_typename(p, tab, i, visit_Typename(p[i].typename[1], tab, i))

\* visit_VarDeclaration from line 238 on: the name is bound and checked
declare_var(p, tab, i) ==
    declare_bound(p, add(tab, p[i].name, NodeEntry("var", i)), i)

\* the redefinition error put before the diagnostics of an outcome
after_redefine(node, i, o) == [o EXCEPT !.errs = redefine_var(node, i) \o @]

\* visit_VarDeclaration without the return of line 237, as the constant rule
visit_VarDeclaration_rebind(p, tab, i) ==
    IF is_bound(tab, p[i].name)
    THEN after_redefine(p[i], i, declare_var(p, tab, i))
    ELSE declare_var(p, tab, i)

visit_VarDeclaration(p, tab, i) ==
    IF is_bound(tab, p[i].name)
    THEN Outcome(p, tab, redefine_var(p[i], i), "")
    ELSE declare_var(p, tab, i)

\* lines 226-227
redefine_const(tab, node, i) ==
    IF is_bound(tab, node.name)
    THEN <<Diag(i, <<0>>, "Attempted to redefine const '{}', not allowed",
                <<node.name>>)>>
    ELSE <<>>

\* lines 230-231: r is the outcome of self.visit(node.expr)
const_outcome(p, tab, i, errs, r) ==
    IF r.exc /= ""
    THEN Outcome([p EXCEPT ![i].expr = <<r.node>>], tab, errs \o r.errs, r.exc)
    ELSE IF ~hasattr(r.node)
    THEN Outcome([p EXCEPT ![i].expr = <<r.node>>], tab, errs \o r.errs,
                 "AttributeError")
    ELSE Outcome([p EXCEPT ![i].expr = <<r.node>>, ![i].check_type = r.node.check_type],
                 tab, errs \o r.errs, "")

\* lines 229-231 with the name bound in tab
const_bound(p, tab, i, errs) ==
    const_outcome(p, tab, i, errs, visit(p[i].expr[1], Env(tab, p), i, <<>>))

visit_ConstDeclaration(p, tab, i) ==
    const_bound(p, add(tab, p[i].name, NodeEntry("const", i)), i,
                redefine_const(tab, p[i], i))

cannot_assign(i, value_type, declared_type) ==
    <<Diag(i, <<0>>, "Cannot assign {} to {}", <<value_type, declared_type>>)>>

\* lines 202-203
not_defined(sym, name, i) ==
    IF sym.cls = "absent"
    THEN <<Diag(i, <<0>>, "name '{}' not defined", <<name>>)>>
    ELSE <<>>

\* lines 206-222: the diagnostics of the assignment rules, given the symbol,
\* the target Location and the visited source expression
assignment_rules(sym, location, expr, i) ==
    IF /\ sym.cls = "var"
       /\ sym.check_type /= Absent /\ hasattr(expr)
       /\ sym.check_type /= expr.check_type
    THEN cannot_assign(i, expr.check_type, sym.check_type)
    ELSE IF sym.cls = "const"
    THEN <<Diag(i, <<0>>, "Cannot assign to constant {}", <<location.name>>)>>
    ELSE IF /\ hasattr(location) /\ hasattr(expr)
            /\ location.check_type /= expr.check_type
    THEN cannot_assign(i, expr.check_type, location.check_type)
    ELSE <<>>

\* lines 205-222: r is the outcome of self.visit(node.expr)
assignment_outcome(p, tab, i, sym, r) ==
    IF r.exc /= ""
    THEN Outcome([p EXCEPT ![i].expr = <<r.node>>], tab,
                 not_defined(sym, p[i].location[1].name, i) \o r.errs, r.exc)
    ELSE Outcome([p EXCEPT ![i].expr = <<r.node>>], tab,
                 not_defined(sym, p[i].location[1].name, i) \o r.errs
                 \o assignment_rules(sym, p[i].location[1], r.node, i), "")

visit_AssignmentStatement(p, tab, i) ==
    assignment_outcome(p, tab, i, Env(tab, p)[p[i].location[1].name],
                       visit(p[i].expr[1], Env(tab, p), i, <<>>))

\* lines 168-169: after an AssignmentStatement was visited (and did not
\* raise) the target name is bound to the source expression
record_assignment(o, name, i) ==
    IF o.exc /= "" THEN o
    ELSE [o EXCEPT !.symtab = add(o.symtab, name, NodeEntry("expr", i))]

\* the body of visit_Program's loop for one statement
visit_statement(p, tab, i) ==
    CASE p[i].kind = "VarDeclaration" -> visit_VarDeclaration(p, tab, i)
      [] p[i].kind = "ConstDeclaration" -> visit_ConstDeclaration(p, tab, i)
      [] p[i].kind = "AssignmentStatement" ->
           record_assignment(visit_AssignmentStatement(p, tab, i),
                             p[i].location[1].name, i)

\* ------------------------------------------------------------ the inputs
IntLit == Literal(<<"int", "3">>)
FloatLit == Literal(<<"float", "4.5">>)
StrLit == Literal(<<"str", "Hello">>)
BoolLit == Literal(<<"bool", "True">>)

UnaryOpsUsed == {"-"}
BinaryOpsUsed == {"+", "-", "*", "/"}
RelOpsUsed == {"<"}

\* statements of the programs that exercise the order of statements
SeqStmts ==
    {VarDeclaration("a", t, <<>>) : t \in {"int", "float", "foo"}}
    \cup {VarDeclaration("b", "float", <<FloatLit>>),
          VarDeclaration("a", "int", <<Binop("+", LoadLocation("b"), FloatLit)>>)}
    \cup {ConstDeclaration(n, e) : n \in {"a", "b"}, e \in {IntLit, LoadLocation("a")}}
    \cup {AssignmentStatement("a", e) :
            e \in {IntLit, FloatLit, LoadLocation("b"),
                   Unaryop("-", LoadLocation("u"))}}
    \cup {AssignmentStatement("b", LoadLocation("int"))}

SeqPrograms == UNION {[1..n -> SeqStmts] : n \in 0..MaxStmts}

\* expressions with operators nested at most d deep (right operands are leaves)
Leaves == {IntLit, StrLit, BoolLit, LoadLocation("u")}

RECURSIVE Exprs(_)
Exprs(d) ==
    IF d = 0 THEN Leaves
    ELSE LET sub == Exprs(d - 1)
         IN Leaves
            \cup {Unaryop(o, e) : o \in UnaryOpsUsed, e \in sub}
            \cup {Binop(o, l, r) : o \in BinaryOpsUsed, l \in sub, r \in Leaves}
            \cup {Relop(o, l, r) : o \in RelOpsUsed, l \in sub, r \in Leaves}

\* one-statement programs that exercise the expression rules
ExprPrograms == {<<VarDeclaration("a", "int", <<e>>)>> : e \in Exprs(MaxDepth)}

Programs == SeqPrograms \cup ExprPrograms

\* ------------------------------------------------------------ the machine
Raised == status \in {"AttributeError", "NameError"}
Finished == status = "done" \/ Raised

Init ==
    /\ parsed \in Programs
    /\ prog = parsed
    /\ symtab = EmptySymtab
    /\ errors = <<>>
    /\ pc = 0
    /\ status = "parsed"
    /\ pass = 0
    /\ prevProg = <<>>
    /\ prevErrors = <<>>
    /\ prevStatus = ""

\* check_program: a new visitor (a fresh table) starts on the tree as it is
check_program ==
    /\ status = "parsed" \/ Finished
    /\ pass < MaxPasses
    /\ pass' = pass + 1
    /\ symtab' = CheckProgramVisitor_init
    /\ errors' = <<>>
    /\ pc' = 1
    /\ status' = "running"
    /\ prevProg' = (IF pass = 0 THEN <<>> ELSE prog)
    /\ prevErrors' = errors
    /\ prevStatus' = (IF pass = 0 THEN "" ELSE status)
    /\ UNCHANGED <<parsed, prog>>

\* the effects o of one iteration of visit_Program's loop
Effects(o) ==
    /\ prog' = o.prog
    /\ symtab' = o.symtab
    /\ errors' = errors \o o.errs
    /\ IF o.exc /= ""
       THEN status' = o.exc /\ pc' = pc
       ELSE status' = status /\ pc' = pc + 1
    /\ UNCHANGED <<parsed, pass, prevProg, prevErrors, prevStatus>>

\* one iteration of visit_Program's loop
Iterate == Effects(visit_statement(prog, symtab, pc))

Program_VarDeclaration ==
    /\ status = "running" /\ pc <= Len(prog)
    /\ prog[pc].kind = "VarDeclaration"
    /\ Iterate

Program_ConstDeclaration ==
    /\ status = "running" /\ pc <= Len(prog)
    /\ prog[pc].kind = "ConstDeclaration"
    /\ Iterate

Program_AssignmentStatement ==
    /\ status = "running" /\ pc <= Len(prog)
    /\ prog[pc].kind = "AssignmentStatement"
    /\ Iterate

\* the loop of visit_Program is exhausted and check_program returns
Program_return ==
    /\ status = "running" /\ pc > Len(prog)
    /\ status' = "done"
    /\ UNCHANGED <<parsed, prog, symtab, errors, pc, pass, prevProg, prevErrors, prevStatus>>

Next ==
    \/ check_program
    \/ Program_VarDeclaration
    \/ Program_ConstDeclaration
    \/ Program_AssignmentStatement
    \/ Program_return

Spec == Init /\ [][Next]_vars

\* ----------------------------------------------------------- properties
\* statement i has been visited to its end in the current pass
Visited(i) == i \in 1..Len(prog) /\ i < pc

\* the diagnostics of the current pass reported on line i with message m
Reports(i, m) == {k \in 1..Len(errors) : errors[k].line = i /\ errors[k].msg = m}

\* the diagnostics the node at path at of statement i reported itself
ReportsAt(i, at) == {k \in 1..Len(errors) : errors[k].line = i /\ errors[k].at = at}

\* the nodes of an expression, each with its path
RECURSIVE Nodes(_, _)
Nodes(e, at) ==
    {[at |-> at, node |-> e]}
    \cup UNION {Nodes(e.kids[k], Append(at, k)) : k \in 1..Len(e.kids)}

\* the node of expression e at path at
RECURSIVE NodeAt(_, _)
NodeAt(e, at) == IF at = <<>> THEN e ELSE NodeAt(e.kids[Head(at)], Tail(at))

OperatorKinds == {"Unaryop", "Binop", "Relop"}

\* no statement before i names the identifier of statement i
FirstOfName(i) ==
    /\ prog[i].name \notin TypeNames
    /\ \A k \in 1..(i - 1) : prog[k].name /= prog[i].name

\* C1: check_program never raises: no reachable state is one in which the
\* pass was ended by an exception.
C1_NeverRaises == ~Raised

\* C2: every AssignmentStatement that has been checked and whose target name
\* was introduced by an earlier ConstDeclaration has reported 'Cannot assign
\* to constant' on its line.
C2_ConstAssignmentReported ==
    \A i \in 1..Len(prog) :
        ( /\ Visited(i)
          /\ prog[i].kind = "AssignmentStatement"
          /\ \E j \in 1..(i - 1) :
                prog[j].kind = "ConstDeclaration" /\ prog[j].name = prog[i].name )
        => Reports(i, "Cannot assign to constant {}") /= {}

\* C3: every AssignmentStatement that has been checked, whose target name was
\* declared by a VarDeclaration of resolved type T (and by no constant) and
\* whose source resolved to a type other than T, has reported 'Cannot assign'.
C3_MismatchedAssignmentReported ==
    \A i \in 1..Len(prog) :
        ( /\ Visited(i)
          /\ prog[i].kind = "AssignmentStatement"
          /\ IsType(prog[i].expr[1].check_type)
          /\ \E j \in 1..(i - 1) :
                /\ prog[j].kind = "VarDeclaration"
                /\ prog[j].name = prog[i].name
                /\ FirstOfName(j)
                /\ IsType(prog[j].check_type)
                /\ prog[j].check_type /= prog[i].expr[1].check_type
                /\ \A k \in (j + 1)..(i - 1) :
                      ~(prog[k].kind = "ConstDeclaration" /\ prog[k].name = prog[i].name) )
        => Reports(i, "Cannot assign {} to {}") /= {}

\* C4: a VarDeclaration that has been checked as a first declaration, with
\* declared type T and an initializer of resolved type T' /= T, has reported
\* exactly one assignment-type-mismatch error.
C4_MismatchedInitializerReported ==
    \A i \in 1..Len(prog) :
        ( /\ Visited(i)
          /\ prog[i].kind = "VarDeclaration"
          /\ FirstOfName(i)
          /\ parsed[i].expr /= <<>>
          /\ IsType(prog[i].check_type)
          /\ IsType(prog[i].expr[1].check_type)
          /\ prog[i].check_type /= prog[i].expr[1].check_type )
        => Cardinality(Reports(i, "Cannot assign {} to {}")) = 1

\* C5: once the pass has checked a program that assigns a literal to an
\* undeclared name and then declares that name as a variable, exactly one
\* error has been reported in total, the 'not defined' error of line 1.
C5_UseBeforeDeclarationOneError ==
    ( /\ status = "done"
      /\ Len(prog) = 2
      /\ prog[1].kind = "AssignmentStatement"
      /\ prog[1].expr[1].kind = "Literal"
      /\ prog[2].kind = "VarDeclaration"
      /\ prog[2].name = prog[1].name
      /\ parsed[2].typename[1].name \in TypeNames
      /\ parsed[2].expr = <<>> )
    => /\ Len(errors) = 1
       /\ errors[1].line = 1
       /\ errors[1].msg = "name '{}' not defined"

\* the binary operators the specification lists for each type
ListedBinaryOps(t) ==
    CASE t \in {"int", "float"} -> {"+", "-", "*", "/"}
      [] t = "string" -> {"+"}
      [] t = "bool" -> {}

\* C6: every checked Binop node whose two operands carry a resolved type
\* reported exactly one diagnostic when the types differ (the 'matching
\* LHS/RHS types' one) or when they are equal and the operator is not listed
\* for the type (the 'not supported' one), and none otherwise.
C6_BinopOneDiagnostic ==
    \A i \in 1..Len(prog) :
        (Visited(i) /\ prog[i].expr /= <<>>) =>
        \A n \in Nodes(prog[i].expr[1], <<>>) :
            ( /\ n.node.kind = "Binop"
              /\ IsType(n.node.kids[1].check_type)
              /\ IsType(n.node.kids[2].check_type) )
            => LET lt == n.node.kids[1].check_type
                   rt == n.node.kids[2].check_type
                   got == [k \in ReportsAt(i, n.at) |-> errors[k].msg]
               IN IF lt /= rt
                  THEN /\ Cardinality(DOMAIN got) = 1
                       /\ \A k \in DOMAIN got : got[k] =
                            "Binary operator {} does not have matching LHS/RHS types"
                  ELSE IF n.node.op \notin ListedBinaryOps(lt)
                  THEN /\ Cardinality(DOMAIN got) = 1
                       /\ \A k \in DOMAIN got : got[k] =
                            "Binary operator {} not supported on {} of expression"
                  ELSE DOMAIN got = {}

\* a checked Binop with operands of the same type and an unlisted operator,
\* and a checked Binop with operands of different types
C6_Witness ==
    \E i \in 1..Len(prog) :
        /\ Visited(i) /\ prog[i].expr /= <<>>
        /\ \E n, m \in Nodes(prog[i].expr[1], <<>>) :
              /\ n.node.kind = "Binop" /\ m.node.kind = "Binop"
              /\ n.node.kids[1].check_type = "string"
              /\ n.node.kids[2].check_type = "string"
              /\ n.node.op = "*"
              /\ ReportsAt(i, n.at) /= {}
              /\ m.node.kids[1].check_type = "string"
              /\ m.node.kids[2].check_type = "int"
              /\ ReportsAt(i, m.at) /= {}

\* C7: a step that checks a VarDeclaration whose name is already bound adds
\* exactly one diagnostic, the redefinition error, and leaves the symbol
\* table (and so the binding and type of the earlier declaration) unchanged.
C7_RedeclarationLeavesTable ==
    [][ ( /\ status = "running" /\ pc <= Len(prog)
          /\ prog[pc].kind = "VarDeclaration"
          /\ symtab[prog[pc].name].cls /= "absent" )
        => /\ symtab' = symtab
           /\ Len(errors') = Len(errors) + 1
           /\ SubSeq(errors', 1, Len(errors)) = errors
           /\ errors'[Len(errors')].msg = "Attempted to redefine var '{}', not allowed"
           /\ errors'[Len(errors')].line = pc
           /\ status' = "running" ]_vars

\* var a int; var a float; has been checked: a is still the int declaration
C7_Witness ==
    \E i \in 1..Len(prog) :
        /\ Visited(i) /\ i > 1
        /\ prog[i].kind = "VarDeclaration"
        /\ parsed[i].typename[1].name = "float"
        /\ Reports(i, "Attempted to redefine var '{}', not allowed") /= {}
        /\ symtab[prog[i].name] = NodeEntry("var", 1)
        /\ prog[1].check_type = "int"

\* the default initializer of declared type t
IsDefaultInitializer(e, t) ==
    /\ Len(e) = 1
    /\ e[1].kind = "Literal"
    /\ e[1].value = default(t)
    /\ e[1].check_type = t

\* C8 as stated: once the pass has checked the program, every VarDeclaration
\* parsed without an initializer has the synthesized default initializer.
C8_EveryDeclarationDefaulted ==
    status = "done" =>
        \A i \in 1..Len(prog) :
            (prog[i].kind = "VarDeclaration" /\ parsed[i].expr = <<>>)
            => \E t \in TypeNames : IsDefaultInitializer(prog[i].expr, t)

\* C8 amended: every VarDeclaration that has been checked, was parsed without
\* an initializer, names a built-in type and whose name was not bound before
\* has the synthesized default initializer of that type.
C8_FirstDeclarationDefaulted ==
    \A i \in 1..Len(prog) :
        ( /\ Visited(i)
          /\ prog[i].kind = "VarDeclaration"
          /\ parsed[i].expr = <<>>
          /\ parsed[i].typename[1].name \in TypeNames
          /\ FirstOfName(i) )
        => /\ IsDefaultInitializer(prog[i].expr, parsed[i].typename[1].name)
           /\ prog[i].check_type = parsed[i].typename[1].name

\* a float declaration without initializer has been checked in a second pass
C8_Witness ==
    \E i \in 1..Len(prog) :
        /\ Visited(i) /\ pass = 2
        /\ prog[i].kind = "VarDeclaration"
        /\ parsed[i].expr = <<>>
        /\ parsed[i].typename[1].name = "float"
        /\ FirstOfName(i)

\* C9: when a pass after the first has ended, its diagnostics, the annotated
\* tree and the way it ended are those of the pass before it.
C9_Idempotent ==
    (pass >= 2 /\ Finished) =>
        /\ errors = prevErrors
        /\ prog = prevProg
        /\ status = prevStatus

\* a second pass has ended over a tree with a synthesized initializer, with
\* diagnostics reported
C9_Witness ==
    /\ pass = 2 /\ status = "done"
    /\ errors /= <<>>
    /\ \E i \in 1..Len(prog) :
          /\ prog[i].kind = "VarDeclaration"
          /\ parsed[i].expr = <<>> /\ prog[i].expr /= <<>>

OperatorMessages ==
    {"Unary operator {} not supported",
     "Binary operator {} does not have matching LHS/RHS types",
     "Binary operator {} not supported on {} of expression",
     "Relational operator {} does not have matching LHS/RHS types",
     "Relational operator {} not supported on {} of expression"}

\* C10: no operator node with an unresolved operand reports a diagnostic or
\* raises: every operator diagnostic comes from a node whose operands all
\* carry a resolved type.
C10_NoCascade ==
    \A k \in 1..Len(errors) :
        errors[k].msg \in OperatorMessages =>
            LET n == NodeAt(prog[errors[k].line].expr[1], errors[k].at)
            IN \A c \in 1..Len(n.kids) : IsType(n.kids[c].check_type)

====
